---- MODULE Spec2Model ----
(***************************************************************************)
(* The connect command of kt-connect (pkg/kt/command/connect.go): option   *)
(* completion (tunnel IP allocation), the exclusivity lock on the pid      *)
(* file, the setup steps of connectToCluster, the hand-off to the          *)
(* transport, and the two interrupt sources that end a connected process.  *)
(* Several connect processes run against one pid file and one cluster.     *)
(***************************************************************************)
EXTENDS Integers, Sequences, FiniteSets, TLC

\* ------------------------------------------------------------------ bounds

\* Width of an address in bits (IPv4 has 32); a CIDR prefix is 0..AddrBits.
AddrBits == 3

\* Number of distinct values util.RandomString can draw in the model.
NumSuffix == 2

\* The longest list of --dump2hosts namespaces.
MaxExtras == 2

\* The connect processes started against the same pid file and cluster.
Procs == {1, 2}

\* ------------------------------------------------------------- value names

NoErr == "nil"
ErrAlreadyRunning == "AlreadyRunning"
ErrInvalidCIDR == "InvalidCIDR"
ErrFull == "RangeExhausted"

MethodSSH == "vpn"
MethodSocks == "socks"
MethodTun == "tun"
Methods == {MethodSSH, MethodSocks, MethodTun}

\* The empty string, for SourceIP, DestIP, Shadow and SSHCM.
Empty == <<>>

SharedWorkload == <<"kt-connect-daemon", "connect", "shared">>

\* The lower-case strings of five letters, numbered.
Suffixes == 1..NumSuffix

\* What util.RandomString(5) can draw: letters of either case. A string is
\* its lower-case form and whether it has an upper-case letter in it.
RandomStrings == [lower : Suffixes, upper : BOOLEAN]

\* strings.ToLower
ToLower(s) == s.lower

\* Namespaces, service names (neither can hold a dot) and the addresses a
\* service table gives: "None" is the address of a headless service.
Namespaces == {"ns1", "ns2"}

Services == {"svcA", "svcB"}

Addresses == {"", "None", "1.1.1.1", "2.2.2.2"}

\* The label keys common.ControlBy, KTComponent, KTName and KTVersion, and a
\* key of the user's own.
ControlBy == "kt-control-by"
KTComponent == "kt-component"
KTName == "kt-name"
KTVersion == "kt-version"
BuiltinKeys == {ControlBy, KTComponent, KTName, KTVersion}
LabelKeys == BuiltinKeys \cup {"app"}

\* The values common.KubernetesTool and common.ComponentConnect.
KubernetesTool == "kt"
ComponentConnect == "connect"

\* The one value a user label carries in the model.
UserValue == "user"

\* util.String2Map(options.Labels): a map over some of the keys.
LabelMaps == UNION {[keys -> {UserValue}] : keys \in SUBSET LabelKeys}

NoLabels == [k \in {} |-> UserValue]

\* The lists options.ConnectOptions.Dump2HostsNamespaces can hold.
NamespaceLists == UNION {[1..n -> Namespaces] : n \in 0..MaxExtras}

\* A service table: name -> address, over the services a namespace has.
ServiceTables == UNION {[svcs -> Addresses] : svcs \in SUBSET Services}

\* The tables of the example: ns1 has svcA, ns2 has svcA and an svcB without
\* an address.
SampleServices ==
    [n \in Namespaces |->
        IF n = "ns1" THEN [s \in {"svcA"} |-> "1.1.1.1"]
        ELSE [s \in {"svcA", "svcB"} |-> IF s = "svcA" THEN "2.2.2.2" ELSE ""]]

Pow2(n) == 2 ^ n

Addrs == 0..(Pow2(AddrBits) - 1)

\* A CIDR string "addr/prefix"; a prefix above AddrBits does not parse.
AllCidrs == [addr : Addrs, prefix : 0..(AddrBits + 1)]

\* The number of addresses of a network of the given prefix.
RangeSize(prefix) == Pow2(AddrBits - prefix)

\* The CIDRs the concurrent specification draws TunCidr from: every one that
\* yields no address pair, and one that yields a pair.
SampleCidrs ==
    {c \in AllCidrs : c.prefix > AddrBits \/ RangeSize(c.prefix) < 4}
        \cup {[addr |-> 1, prefix |-> 0]}

\* ------------------------------------------------------ IP range allocator

\* net.ParseCIDR: the network address is the address with its host bits
\* cleared; size is the number of addresses of the network.
ParseCIDR(cidr) ==
    IF cidr.prefix > AddrBits
    THEN [err |-> ErrInvalidCIDR, net |-> 0, size |-> 0]
    ELSE LET size == RangeSize(cidr.prefix)
         IN [err |-> NoErr, net |-> cidr.addr - (cidr.addr % size), size |-> size]

Maximum(a, b) == IF a > b THEN a ELSE b

\* ipallocator.NewAllocatorCIDRRange: the range starts one above the
\* network address and leaves out the network and the broadcast address.
NewAllocatorCIDRRange(ipnet) ==
    [base |-> ipnet.net + 1, max |-> Maximum(0, ipnet.size - 2)]

\* Range.AllocateNext over a contiguous allocation map: the lowest free
\* offset, or ErrFull when every offset is taken.
AllocateNext(rge, allocated) ==
    LET free == {i \in 0..(rge.max - 1) : i \notin allocated}
    IN IF free = {}
       THEN [err |-> ErrFull, offset |-> 0, ip |-> 0]
       ELSE LET i == CHOOSE x \in free : \A y \in free : x <= y
            IN [err |-> NoErr, offset |-> i, ip |-> rge.base + i]

\* net.IP.String: the text of an address.
IPString(ip) == <<ip>>

AllocFail(e) == [srcIP |-> Empty, destIP |-> Empty, err |-> e]

\* A slip: the two addresses are returned in the other order.
allocateTunIP_Swapped(cidr) ==
    LET ipnet == ParseCIDR(cidr)
    IN IF ipnet.err # NoErr THEN AllocFail(ipnet.err)
       ELSE LET rge == NewAllocatorCIDRRange(ipnet)
                a1 == AllocateNext(rge, {})
            IN IF a1.err # NoErr THEN AllocFail(a1.err)
               ELSE LET a2 == AllocateNext(rge, {a1.offset})
                    IN IF a2.err # NoErr THEN AllocFail(a2.err)
                       ELSE [srcIP |-> IPString(a2.ip),
                             destIP |-> IPString(a1.ip),
                             err |-> NoErr]

allocateTunIP(cidr) ==
    LET ipnet == ParseCIDR(cidr)
    IN IF ipnet.err # NoErr THEN AllocFail(ipnet.err)
       ELSE LET rge == NewAllocatorCIDRRange(ipnet)
                a1 == AllocateNext(rge, {})
            IN IF a1.err # NoErr THEN AllocFail(a1.err)
               ELSE LET a2 == AllocateNext(rge, {a1.offset})
                    IN IF a2.err # NoErr THEN AllocFail(a2.err)
                       ELSE [srcIP |-> IPString(a1.ip),
                             destIP |-> IPString(a2.ip),
                             err |-> NoErr]

\* -------------------------------------------------------------------- state

VARIABLES
    opts,       \* options.ConnectOptions of each process
    rt,         \* options.RuntimeOptions of each process
    pc,         \* where the main goroutine of each process stands
    err,        \* the error the command returned
    calls,      \* the calls each process has made, in order
    logged,     \* the non-fatal errors each process has logged
    failed,     \* the calls of each process that failed
    ch,         \* the signal channel of SetUpCloseHandler
    interrupt,  \* the channel of util.Interrupt()
    watcher,    \* where the watcher goroutine of Connect stands
    cleanup,    \* the run of CleanupWorkspace in each process
    proc,       \* the process itself: alive, or how it exited
    applied,    \* the local changes of each process that are in place
    pidFile,    \* the pid file at each path: 0 when absent, else its pid
    cluster,    \* the live shadow workloads: name -> creating pid, 0 absent
    services,   \* the cluster's service table of each namespace
    dumped,     \* the hosts table each process handed to util.DumpHosts
    request     \* the arguments of each process's GetOrCreateShadow call

vars == <<opts, rt, pc, err, calls, logged, failed, ch, interrupt, watcher, cleanup,
          proc, applied, pidFile, cluster, services, dumped, request>>

\* The name fmt.Sprintf("kt-connect-daemon-%s", suffix) builds.
Workload(suffix) == <<"kt-connect-daemon", suffix>>

WorkloadNames == {SharedWorkload} \cup {Workload(s) : s \in Suffixes}

\* The options of a command line: Dump is util.IsWindows(), a property of the
\* platform the command runs on. Without further flags the namespace is ns1,
\* no namespace is listed for the host dump and no label is given.
OptionSets(cidrs) ==
    [Method : Methods, ShareShadow : BOOLEAN, Dump : BOOLEAN,
     TunCidr : cidrs, SourceIP : {Empty}, DestIP : {Empty},
     Namespace : {"ns1"}, Dump2HostsNamespaces : {<<>>}, Labels : {NoLabels}]

\* No table handed to util.DumpHosts yet; no GetOrCreateShadow call made yet.
NotDumped == [made |-> FALSE, hosts |-> <<>>]

NoRequest == [made |-> FALSE, workload |-> Empty, labels |-> NoLabels]

InitRuntime(path) ==
    [PidFile |-> path, Shadow |-> Empty, SSHCM |-> Empty, Dump2Host |-> FALSE,
     ProxyConfig |-> {}]

\* The pid file paths: path 1 is the one of the shared workspace.
Paths == Procs

\* Where the processes keep their pid file: all at one path (one workspace),
\* or, for the plain SSH method, each at its own (separate workstations
\* connected to the same cluster).
PidFileLayouts(o) ==
    {[p \in Procs |-> 1]} \cup
    (IF o.Method = MethodSSH /\ ~o.Dump THEN {[p \in Procs |-> p]} ELSE {})

\* The processes are started with the same command line.
InitWith(optionSet) ==
    /\ \E o \in optionSet :
          /\ opts = [p \in Procs |-> o]
          /\ \E layout \in PidFileLayouts(o) :
                rt = [p \in Procs |-> InitRuntime(layout[p])]
    /\ pc = [p \in Procs |-> "CompleteOptions"]
    /\ err = [p \in Procs |-> NoErr]
    /\ calls = [p \in Procs |-> <<>>]
    /\ logged = [p \in Procs |-> {}]
    /\ failed = [p \in Procs |-> {}]
    /\ ch = [p \in Procs |-> "none"]
    /\ interrupt = [p \in Procs |-> "no"]
    /\ watcher = [p \in Procs |-> "none"]
    /\ cleanup = [p \in Procs |-> "none"]
    /\ proc = [p \in Procs |-> "alive"]
    /\ applied = [p \in Procs |-> {}]
    /\ pidFile = [f \in Paths |-> 0]
    /\ cluster = [n \in WorkloadNames |-> 0]
    /\ dumped = [p \in Procs |-> NotDumped]
    /\ request = [p \in Procs |-> NoRequest]

\* TunCidr is read only in Tun mode: the other modes carry one value. The
\* proxy registrar is run with a shared shadow.
ConcurrentOptions ==
    {o \in OptionSets(SampleCidrs) :
        /\ o.Method # MethodTun => o.TunCidr = [addr |-> 1, prefix |-> 0]
        /\ o.Method = MethodSocks => o.ShareShadow}

\* Option completion alone is checked over every CIDR.
AllOptions == OptionSets(AllCidrs)

Init == InitWith(ConcurrentOptions) /\ services = SampleServices

Alive(p) == proc[p] = "alive"

\* p makes the call `name`, which succeeds or fails.
Called(p, name, ok) ==
    /\ calls' = [calls EXCEPT ![p] = Append(@, name)]
    /\ failed' = [failed EXCEPT ![p] = IF ok THEN @ ELSE @ \cup {name}]

\* The command returns e to its caller.
Return(p, e) ==
    /\ err' = [err EXCEPT ![p] = e]
    /\ pc' = [pc EXCEPT ![p] = "returned"]

Goto(p, label) == pc' = [pc EXCEPT ![p] = label]

\* ------------------------------------------------- newConnectCommand.Action

\* A slip: the error of allocateTunIP is dropped and the command goes on.
CompleteOptions_ErrDropped(p) ==
    /\ Alive(p) /\ pc[p] = "CompleteOptions"
    /\ IF opts[p].Method = MethodTun
       THEN LET r == allocateTunIP(opts[p].TunCidr)
            IN /\ Called(p, "allocateTunIP", r.err = NoErr)
               /\ opts' = [opts EXCEPT ![p].SourceIP = r.srcIP,
                                       ![p].DestIP = r.destIP]
       ELSE UNCHANGED <<opts, calls, failed>>
    /\ Goto(p, "combineKubeOpts")
    /\ UNCHANGED <<services, dumped, request, rt, err, logged, ch, interrupt, watcher, cleanup, proc,
                   applied, pidFile, cluster>>

CompleteOptions(p) ==
    /\ Alive(p) /\ pc[p] = "CompleteOptions"
    /\ IF opts[p].Method = MethodTun
       THEN LET r == allocateTunIP(opts[p].TunCidr)
            IN /\ Called(p, "allocateTunIP", r.err = NoErr)
               /\ IF r.err # NoErr
                  THEN /\ Return(p, r.err)
                       /\ UNCHANGED opts
                  ELSE /\ opts' = [opts EXCEPT ![p].SourceIP = r.srcIP,
                                               ![p].DestIP = r.destIP]
                       /\ Goto(p, "combineKubeOpts")
                       /\ UNCHANGED err
       ELSE /\ Goto(p, "combineKubeOpts")
            /\ UNCHANGED <<opts, err, calls, failed>>
    /\ UNCHANGED <<services, dumped, request, rt, logged, ch, interrupt, watcher, cleanup, proc, applied,
                   pidFile, cluster>>

combineKubeOpts(p) ==
    /\ Alive(p) /\ pc[p] = "combineKubeOpts"
    /\ \E ok \in BOOLEAN :
          /\ Called(p, "combineKubeOpts", ok)
          /\ IF ok THEN Goto(p, "Connect") /\ UNCHANGED err
             ELSE Return(p, "KubeOptsError")
    /\ UNCHANGED <<services, dumped, request, opts, rt, logged, ch, interrupt, watcher, cleanup, proc,
                   applied, pidFile, cluster>>

\* ------------------------------------------------------------ the pid file

\* util.IsDaemonRunning: the pid file exists and its owner is alive.
IsDaemonRunning(file) == file # 0 /\ proc[file] = "alive"

\* util.WritePidFile, one atomic step on the file: it fails when the file is
\* held by a live process and else holds the writer's pid.
WritePidFileErr(p, file) ==
    IF IsDaemonRunning(file) THEN ErrAlreadyRunning ELSE NoErr

\* ------------------------------------------------------------------ Connect

\* A slip: the close handler is installed before the liveness check.
Connect_HandlerFirst(p) ==
    /\ Alive(p) /\ pc[p] = "Connect"
    /\ Called(p, "IsDaemonRunning", ~IsDaemonRunning(pidFile[rt[p].PidFile]))
    /\ ch' = [ch EXCEPT ![p] = "empty"]
    /\ IF IsDaemonRunning(pidFile[rt[p].PidFile])
       THEN Return(p, ErrAlreadyRunning)
       ELSE Goto(p, "SetUpCloseHandler") /\ UNCHANGED err
    /\ UNCHANGED <<services, dumped, request, opts, rt, logged, interrupt, watcher, cleanup, proc,
                   applied, pidFile, cluster>>

\* A slip: the liveness check is made and its answer is not acted on.
Connect_NoCheck(p) ==
    /\ Alive(p) /\ pc[p] = "Connect"
    /\ Called(p, "IsDaemonRunning", ~IsDaemonRunning(pidFile[rt[p].PidFile]))
    /\ Goto(p, "SetUpCloseHandler")
    /\ UNCHANGED <<services, dumped, request, opts, rt, err, logged, ch, interrupt, watcher, cleanup,
                   proc, applied, pidFile, cluster>>

Connect(p) ==
    /\ Alive(p) /\ pc[p] = "Connect"
    /\ Called(p, "IsDaemonRunning", ~IsDaemonRunning(pidFile[rt[p].PidFile]))
    /\ IF IsDaemonRunning(pidFile[rt[p].PidFile])
       THEN Return(p, ErrAlreadyRunning)
       ELSE Goto(p, "SetUpCloseHandler") /\ UNCHANGED err
    /\ UNCHANGED <<services, dumped, request, opts, rt, logged, ch, interrupt, watcher, cleanup, proc,
                   applied, pidFile, cluster>>

SetUpCloseHandler(p) ==
    /\ Alive(p) /\ pc[p] = "SetUpCloseHandler"
    /\ Called(p, "SetUpCloseHandler", TRUE)
    /\ ch' = [ch EXCEPT ![p] = "empty"]
    /\ Goto(p, "WritePidFile")
    /\ UNCHANGED <<services, dumped, request, opts, rt, err, logged, interrupt, watcher, cleanup, proc,
                   applied, pidFile, cluster>>

\* ---------------------------------------------------------- connectToCluster

\* The step after cli.Kubernetes() and after setupDump2Host.
AfterDump(p) ==
    IF opts[p].Method = MethodSocks THEN "SetGlobalProxy" ELSE "getOrCreateShadow"

AfterKubernetes(p) ==
    IF opts[p].Dump \/ Len(opts[p].Dump2HostsNamespaces) > 0
    THEN "setupDump2Host"
    ELSE AfterDump(p)

\* A slip: the error of util.WritePidFile is dropped, the file is written and
\* the flow goes on.
WritePidFile_ErrDropped(p) ==
    /\ Alive(p) /\ pc[p] = "WritePidFile"
    /\ Called(p, "WritePidFile", WritePidFileErr(p, pidFile[rt[p].PidFile]) = NoErr)
    /\ pidFile' = [pidFile EXCEPT ![rt[p].PidFile] = p]
    /\ Goto(p, "Kubernetes")
    /\ UNCHANGED <<services, dumped, request, opts, rt, err, logged, ch, interrupt, watcher, cleanup,
                   proc, applied, cluster>>

WritePidFile(p) ==
    /\ Alive(p) /\ pc[p] = "WritePidFile"
    /\ LET e == WritePidFileErr(p, pidFile[rt[p].PidFile])
       IN /\ Called(p, "WritePidFile", e = NoErr)
          /\ IF e # NoErr
             THEN Return(p, e) /\ UNCHANGED pidFile
             ELSE /\ pidFile' = [pidFile EXCEPT ![rt[p].PidFile] = p]
                  /\ Goto(p, "Kubernetes")
                  /\ UNCHANGED err
    /\ UNCHANGED <<services, dumped, request, opts, rt, logged, ch, interrupt, watcher, cleanup, proc,
                   applied, cluster>>

Kubernetes(p) ==
    /\ Alive(p) /\ pc[p] = "Kubernetes"
    /\ \E ok \in BOOLEAN :
          /\ Called(p, "Kubernetes", ok)
          /\ IF ok THEN Goto(p, AfterKubernetes(p)) /\ UNCHANGED err
             ELSE Return(p, "ClusterError")
    /\ UNCHANGED <<services, dumped, request, opts, rt, logged, ch, interrupt, watcher, cleanup, proc,
                   applied, pidFile, cluster>>

\* kubernetes.ServiceHosts(namespace)
ServiceHosts(namespace) == services[namespace]

\* The key svc + "." + namespace; the key of the primary namespace is the
\* service name alone. Names hold no dot, so a key is its list of parts.
QualifiedKey(svc, namespace) == <<svc, namespace>>

PlainKey(svc) == <<svc>>

\* The test of the inner loop: ip == "" || ip == "None"
Skipped(ip) == ip = "" \/ ip = "None"

\* hosts[svc+"."+namespace] = ip, for every service of the namespace that
\* is not skipped.
AddNamespace(hosts, namespace) ==
    LET singleHosts == ServiceHosts(namespace)
        kept == {svc \in DOMAIN singleHosts : ~Skipped(singleHosts[svc])}
        keys == {QualifiedKey(svc, namespace) : svc \in kept}
    IN [k \in DOMAIN hosts \cup keys |->
           IF k \in keys THEN singleHosts[k[1]] ELSE hosts[k]]

\* A slip: the primary namespace listed among the extras is not passed over.
AddExtra_NoSelfSkip(hosts, primary, namespace) == AddNamespace(hosts, namespace)

\* One round of the loop over Dump2HostsNamespaces.
AddExtra(hosts, primary, namespace) ==
    IF namespace = primary THEN hosts ELSE AddNamespace(hosts, namespace)

RECURSIVE MergeHosts(_, _, _)
MergeHosts(hosts, primary, namespaces) ==
    IF namespaces = <<>> THEN hosts
    ELSE MergeHosts(AddExtra(hosts, primary, Head(namespaces)), primary,
                    Tail(namespaces))

\* The table setupDump2Host hands to util.DumpHosts.
HostsTable(o) ==
    LET primary == ServiceHosts(o.Namespace)
        hosts == [k \in {PlainKey(svc) : svc \in DOMAIN primary} |-> primary[k[1]]]
    IN MergeHosts(hosts, o.Namespace, o.Dump2HostsNamespaces)

\* setupDump2Host returns nothing: a failure of util.DumpHosts is logged.
setupDump2Host(p) ==
    /\ Alive(p) /\ pc[p] = "setupDump2Host"
    /\ dumped' = [dumped EXCEPT ![p] = [made |-> TRUE, hosts |-> HostsTable(opts[p])]]
    /\ \E ok \in BOOLEAN :
          /\ Called(p, "setupDump2Host", ok)
          /\ IF ok
             THEN /\ applied' = [applied EXCEPT ![p] = @ \cup {"hosts"}]
                  /\ UNCHANGED logged
             ELSE /\ logged' = [logged EXCEPT ![p] = @ \cup {"setupDump2Host"}]
                  /\ UNCHANGED applied
    /\ rt' = [rt EXCEPT ![p].Dump2Host = TRUE]
    /\ Goto(p, AfterDump(p))
    /\ UNCHANGED <<services, request, opts, err, ch, interrupt, watcher, cleanup, proc, pidFile,
                   cluster>>

\* A slip: a failure of the proxy registrar is returned.
Registrar_FailureFatal(p, name, setting, next) ==
    /\ \E ok \in BOOLEAN :
          /\ Called(p, name, ok)
          /\ IF ok
             THEN /\ applied' = [applied EXCEPT ![p] = @ \cup {setting}]
                  /\ rt' = [rt EXCEPT ![p].ProxyConfig = @ \cup {setting}]
                  /\ err' = [err EXCEPT ![p] = NoErr]
                  /\ Goto(p, next)
                  /\ UNCHANGED logged
             ELSE /\ logged' = [logged EXCEPT ![p] = @ \cup {name}]
                  /\ Return(p, "ProxyConfigFailed")
                  /\ UNCHANGED <<applied, rt>>
    /\ UNCHANGED <<services, dumped, request, opts, ch, interrupt, watcher, cleanup, proc, pidFile,
                   cluster>>

\* One call of the proxy registrar: err takes its result; on success the
\* setting is in place and recorded in RuntimeOptions.ProxyConfig, on failure
\* the error is logged and the flow goes on.
Registrar(p, name, setting, next) ==
    /\ \E ok \in BOOLEAN :
          /\ Called(p, name, ok)
          /\ IF ok
             THEN /\ applied' = [applied EXCEPT ![p] = @ \cup {setting}]
                  /\ rt' = [rt EXCEPT ![p].ProxyConfig = @ \cup {setting}]
                  /\ err' = [err EXCEPT ![p] = NoErr]
                  /\ UNCHANGED logged
             ELSE /\ logged' = [logged EXCEPT ![p] = @ \cup {name}]
                  /\ err' = [err EXCEPT ![p] = "ProxyConfigFailed"]
                  /\ UNCHANGED <<applied, rt>>
    /\ Goto(p, next)
    /\ UNCHANGED <<services, dumped, request, opts, ch, interrupt, watcher, cleanup, proc, pidFile,
                   cluster>>

SetGlobalProxy(p) ==
    /\ Alive(p) /\ pc[p] = "SetGlobalProxy"
    /\ Registrar(p, "SetGlobalProxy", "globalProxy", "SetHttpProxyEnvironmentVariable")

SetHttpProxyEnvironmentVariable(p) ==
    /\ Alive(p) /\ pc[p] = "SetHttpProxyEnvironmentVariable"
    /\ Registrar(p, "SetHttpProxyEnvironmentVariable", "envProxy", "getOrCreateShadow")

\* ------------------------------------------------------- shadow provisioner

\* kubernetes.GetOrCreateShadow on the cluster: create-or-get under the name.
GetOrCreate(p, name, c) ==
    IF c[name] = 0 THEN [c EXCEPT ![name] = p] ELSE c

\* The config reference the cluster returns for a workload.
ConfigRef(name) == <<"cm", name>>

\* The last of the segments strings.Split(workload, "-") gives: the suffix
\* of an exclusive name, "shared" for the shared one. A label value is the
\* list of its segments; the suffix is taken as text.
Version(workload) ==
    IF workload = SharedWorkload
    THEN <<workload[Len(workload)]>>
    ELSE <<ToString(workload[Len(workload)])>>

\* labels(workload, options): the built-in labels, over them the user's, and
\* over those the version label.
labels(workload, o) ==
    LET builtin == [k \in {ControlBy, KTComponent, KTName} |->
                       CASE k = ControlBy -> <<KubernetesTool>>
                         [] k = KTComponent -> <<ComponentConnect>>
                         [] k = KTName -> workload]
        user == o.Labels
        merged == [k \in DOMAIN builtin \cup DOMAIN user |->
                      IF k \in DOMAIN user THEN <<user[k]>> ELSE builtin[k]]
    IN [k \in DOMAIN merged \cup {KTVersion} |->
           IF k = KTVersion THEN Version(workload) ELSE merged[k]]

\* A slip: the shadow is recorded before the result of the call is known.
ProvisionThen_RecordFirst(p, workload, next) ==
    \E ok \in BOOLEAN :
        /\ Called(p, "GetOrCreateShadow", ok)
        /\ request' = [request EXCEPT ![p] =
                          [made |-> TRUE, workload |-> workload,
                           labels |-> labels(workload, opts[p])]]
        /\ rt' = [rt EXCEPT ![p].Shadow = workload,
                            ![p].SSHCM = ConfigRef(workload)]
        /\ IF ok
           THEN /\ cluster' = GetOrCreate(p, workload, cluster)
                /\ err' = [err EXCEPT ![p] = NoErr]
                /\ Goto(p, next)
           ELSE /\ Return(p, "ProvisionFailed")
                /\ UNCHANGED cluster

\* getOrCreateShadow with the workload name already built: the err passed in
\* is overwritten by the result of kubernetes.GetOrCreateShadow; on success
\* the flow goes on at `next`.
ProvisionThen(p, workload, next) ==
    \E ok \in BOOLEAN :
        /\ Called(p, "GetOrCreateShadow", ok)
        /\ request' = [request EXCEPT ![p] =
                          [made |-> TRUE, workload |-> workload,
                           labels |-> labels(workload, opts[p])]]
        /\ IF ok
           THEN /\ cluster' = GetOrCreate(p, workload, cluster)
                /\ rt' = [rt EXCEPT ![p].Shadow = workload,
                                    ![p].SSHCM = ConfigRef(workload)]
                /\ err' = [err EXCEPT ![p] = NoErr]
                /\ Goto(p, next)
           ELSE /\ Return(p, "ProvisionFailed")
                /\ UNCHANGED <<cluster, rt>>

\* A slip: an error left in err by an earlier step is returned.
ProvisionShadow_ErrKept(p, workload) ==
    IF err[p] # NoErr
    THEN /\ Return(p, err[p])
         /\ UNCHANGED <<calls, failed, cluster, rt, request>>
    ELSE ProvisionThen(p, workload, "ClusterCrids")

ProvisionShadow(p, workload) == ProvisionThen(p, workload, "ClusterCrids")

\* A slip: the name gets a random suffix whatever ShareShadow says.
WorkloadName_NeverShared(p, suffix) == Workload(suffix)

\* The name of the shadow workload.
WorkloadName(p, suffix) ==
    IF opts[p].ShareShadow THEN SharedWorkload ELSE Workload(suffix)

\* A slip: the hand-off follows the provisioning, before the CIDR query.
getOrCreateShadow_ThenOutbound(p) ==
    /\ Alive(p) /\ pc[p] = "getOrCreateShadow"
    /\ \E s \in RandomStrings :
          ProvisionThen(p, WorkloadName(p, ToLower(s)), "Outbound")
    /\ UNCHANGED <<services, dumped, opts, logged, ch, interrupt, watcher, cleanup, proc,
                   applied, pidFile>>

getOrCreateShadow(p) ==
    /\ Alive(p) /\ pc[p] = "getOrCreateShadow"
    /\ \E s \in RandomStrings : ProvisionShadow(p, WorkloadName(p, ToLower(s)))
    /\ UNCHANGED <<services, dumped, opts, logged, ch, interrupt, watcher, cleanup, proc,
                   applied, pidFile>>

ClusterCrids(p) ==
    /\ Alive(p) /\ pc[p] = "ClusterCrids"
    /\ \E ok \in BOOLEAN :
          /\ Called(p, "ClusterCrids", ok)
          /\ IF ok THEN Goto(p, "Outbound") /\ UNCHANGED err
             ELSE Return(p, "ClusterCridsFailed")
    /\ UNCHANGED <<services, dumped, request, opts, rt, logged, ch, interrupt, watcher, cleanup, proc,
                   applied, pidFile, cluster>>

\* cli.Shadow().Outbound: its error is the result of connectToCluster; on
\* success Connect goes on to start the watcher goroutine.
Outbound(p) ==
    /\ Alive(p) /\ pc[p] = "Outbound"
    /\ \E ok \in BOOLEAN :
          /\ Called(p, "Outbound", ok)
          /\ IF ok THEN Goto(p, "go") /\ UNCHANGED err
             ELSE Return(p, "TransportFailed")
    /\ UNCHANGED <<services, dumped, request, opts, rt, logged, ch, interrupt, watcher, cleanup, proc,
                   applied, pidFile, cluster>>

\* -------------------------------------------------------- workspace cleanup

\* CleanupWorkspace is guarded by a single-use latch: the first caller takes
\* it and runs the teardown, a later caller returns at once.
LatchFree(p) == cleanup[p] = "none"

\* The teardown itself: the pid file is removed, an exclusive shadow is
\* deleted and a shared one is left alone, the local changes recorded in the
\* runtime options are reverted.
Reverted(p) ==
    (IF rt[p].Dump2Host THEN {"hosts"} ELSE {}) \cup rt[p].ProxyConfig

\* A slip: the teardown deletes the recorded shadow whatever the mode.
ShadowAfterCleanup_AlwaysDelete(p, c) ==
    IF rt[p].Shadow # Empty THEN [c EXCEPT ![rt[p].Shadow] = 0] ELSE c

ShadowAfterCleanup(p, c) ==
    IF ~opts[p].ShareShadow /\ rt[p].Shadow # Empty
    THEN [c EXCEPT ![rt[p].Shadow] = 0]
    ELSE c

Teardown(p) ==
    /\ pidFile' = [pidFile EXCEPT ![rt[p].PidFile] = 0]
    /\ cluster' = ShadowAfterCleanup(p, cluster)
    /\ applied' = [applied EXCEPT ![p] = @ \ Reverted(p)]
    /\ cleanup' = [cleanup EXCEPT ![p] = "done"]

\* --------------------------------------------------- the wait for an interrupt

\* go func() { <-util.Interrupt(); CleanupWorkspace(cli, options); os.Exit(0) }()
StartWatcher(p) ==
    /\ Alive(p) /\ pc[p] = "go"
    /\ watcher' = [watcher EXCEPT ![p] = "waiting"]
    /\ Called(p, "wait", TRUE)
    /\ Goto(p, "wait")
    /\ UNCHANGED <<services, dumped, request, opts, rt, err, logged, ch, interrupt, cleanup, proc,
                   applied, pidFile, cluster>>

WatcherInterrupt(p) ==
    /\ Alive(p) /\ watcher[p] = "waiting" /\ interrupt[p] = "sent"
    /\ interrupt' = [interrupt EXCEPT ![p] = "taken"]
    /\ watcher' = [watcher EXCEPT ![p] = "CleanupWorkspace"]
    /\ UNCHANGED <<services, dumped, request, opts, rt, pc, err, calls, failed, logged, ch, cleanup, proc,
                   applied, pidFile, cluster>>

WatcherCleanup(p) ==
    /\ Alive(p) /\ watcher[p] = "CleanupWorkspace"
    /\ IF LatchFree(p)
       THEN /\ cleanup' = [cleanup EXCEPT ![p] = "watcher"]
            /\ watcher' = [watcher EXCEPT ![p] = "cleaning"]
       ELSE /\ watcher' = [watcher EXCEPT ![p] = "os.Exit"]
            /\ UNCHANGED cleanup
    /\ UNCHANGED <<services, dumped, request, opts, rt, pc, err, calls, failed, logged, ch, interrupt, proc,
                   applied, pidFile, cluster>>

WatcherCleanupDone(p) ==
    /\ Alive(p) /\ watcher[p] = "cleaning" /\ cleanup[p] = "watcher"
    /\ Teardown(p)
    /\ watcher' = [watcher EXCEPT ![p] = "os.Exit"]
    /\ UNCHANGED <<services, dumped, request, opts, rt, pc, err, calls, failed, logged, ch, interrupt, proc>>

\* os.Exit(0) ends the process, the main goroutine with it.
WatcherExit(p) ==
    /\ Alive(p) /\ watcher[p] = "os.Exit"
    /\ proc' = [proc EXCEPT ![p] = "exit0"]
    /\ UNCHANGED <<services, dumped, request, opts, rt, pc, err, calls, failed, logged, ch, interrupt, watcher,
                   cleanup, applied, pidFile, cluster>>

\* s := <-ch; return
ReceiveSignal(p) ==
    /\ Alive(p) /\ pc[p] = "wait" /\ ch[p] = "signal"
    /\ ch' = [ch EXCEPT ![p] = "empty"]
    /\ Return(p, err[p])
    /\ UNCHANGED <<services, dumped, request, opts, rt, calls, failed, logged, interrupt, watcher, cleanup, proc,
                   applied, pidFile, cluster>>

\* ------------------------------------------------------ the command's caller

\* A command that returned an error ends the process with a non-zero result
\* and no cleanup; one that returned nil leaves the cleanup to its caller.
CallerCleanup(p) ==
    /\ Alive(p) /\ pc[p] = "returned" /\ err[p] = NoErr
    /\ IF LatchFree(p)
       THEN /\ cleanup' = [cleanup EXCEPT ![p] = "caller"]
            /\ Goto(p, "cleaning")
       ELSE /\ Goto(p, "exit")
            /\ UNCHANGED cleanup
    /\ UNCHANGED <<services, dumped, request, opts, rt, err, calls, failed, logged, ch, interrupt, watcher, proc,
                   applied, pidFile, cluster>>

CallerCleanupDone(p) ==
    /\ Alive(p) /\ pc[p] = "cleaning" /\ cleanup[p] = "caller"
    /\ Teardown(p)
    /\ Goto(p, "exit")
    /\ UNCHANGED <<services, dumped, request, opts, rt, err, calls, failed, logged, ch, interrupt, watcher, proc>>

CallerExit(p) ==
    /\ Alive(p)
    /\ \/ pc[p] = "exit" /\ proc' = [proc EXCEPT ![p] = "exit0"]
       \/ pc[p] = "returned" /\ err[p] # NoErr
            /\ proc' = [proc EXCEPT ![p] = "exit1"]
    /\ UNCHANGED <<services, dumped, request, opts, rt, pc, err, calls, failed, logged, ch, interrupt, watcher,
                   cleanup, applied, pidFile, cluster>>

\* ------------------------------------------------------ the interrupt sources

\* A termination signal reaches a process whose close handler is installed.
UserTerminate(p) ==
    /\ Alive(p) /\ ch[p] = "empty"
    /\ ch' = [ch EXCEPT ![p] = "signal"]
    /\ UNCHANGED <<services, dumped, request, opts, rt, pc, err, calls, failed, logged, interrupt, watcher,
                   cleanup, proc, applied, pidFile, cluster>>

\* The transport started by Outbound exits unexpectedly.
BackgroundFailure(p) ==
    /\ Alive(p) /\ interrupt[p] = "no"
    /\ pc[p] \in {"go", "wait", "returned", "cleaning", "exit"}
    /\ "Outbound" \in {calls[p][i] : i \in 1..Len(calls[p])}
    /\ err[p] = NoErr
    /\ interrupt' = [interrupt EXCEPT ![p] = "sent"]
    /\ UNCHANGED <<services, dumped, request, opts, rt, pc, err, calls, failed, logged, ch, watcher, cleanup,
                   proc, applied, pidFile, cluster>>

\* ------------------------------------------------------------ specification

Step(p) ==
    \/ CompleteOptions(p)
    \/ combineKubeOpts(p)
    \/ Connect(p)
    \/ SetUpCloseHandler(p)
    \/ WritePidFile(p)
    \/ Kubernetes(p)
    \/ setupDump2Host(p)
    \/ SetGlobalProxy(p)
    \/ SetHttpProxyEnvironmentVariable(p)
    \/ getOrCreateShadow(p)
    \/ ClusterCrids(p)
    \/ Outbound(p)
    \/ StartWatcher(p)
    \/ WatcherInterrupt(p)
    \/ WatcherCleanup(p)
    \/ WatcherCleanupDone(p)
    \/ WatcherExit(p)
    \/ ReceiveSignal(p)
    \/ CallerCleanup(p)
    \/ CallerCleanupDone(p)
    \/ CallerExit(p)
    \/ UserTerminate(p)
    \/ BackgroundFailure(p)

Next == \E p \in Procs : Step(p)

Spec == Init /\ [][Next]_vars

\* Option completion on its own, over every CIDR: the part of the command
\* that runs before action.Connect.
InitAlloc == InitWith(AllOptions) /\ services = SampleServices

NextAlloc == \E p \in Procs : CompleteOptions(p) \/ combineKubeOpts(p)

SpecAlloc == InitAlloc /\ [][NextAlloc]_vars

\* The host dump on its own, over every service table and every list of
\* namespaces: the command up to setupDump2Host, run with the plain SSH
\* method. Without a namespace listed the dump runs on Windows only.
PlainOptions ==
    [Method |-> MethodSSH, ShareShadow |-> FALSE, Dump |-> FALSE,
     TunCidr |-> [addr |-> 1, prefix |-> 0], SourceIP |-> Empty,
     DestIP |-> Empty, Namespace |-> "ns1", Dump2HostsNamespaces |-> <<>>,
     Labels |-> NoLabels]

HostOptions ==
    {[PlainOptions EXCEPT !.Dump2HostsNamespaces = e, !.Dump = (e = <<>>)] :
        e \in NamespaceLists}

InitHosts == InitWith(HostOptions) /\ services \in [Namespaces -> ServiceTables]

NextHosts ==
    \E p \in Procs :
        \/ CompleteOptions(p)
        \/ combineKubeOpts(p)
        \/ Connect(p)
        \/ SetUpCloseHandler(p)
        \/ WritePidFile(p)
        \/ Kubernetes(p)
        \/ setupDump2Host(p)

SpecHosts == InitHosts /\ [][NextHosts]_vars

\* The shadow provisioning on its own, over every map of user labels: the
\* command up to getOrCreateShadow, run with the plain SSH method.
LabelOptions ==
    {[PlainOptions EXCEPT !.ShareShadow = s, !.Labels = l] :
        s \in BOOLEAN, l \in LabelMaps}

InitLabels == InitWith(LabelOptions) /\ services = SampleServices

NextLabels ==
    \E p \in Procs :
        \/ CompleteOptions(p)
        \/ combineKubeOpts(p)
        \/ Connect(p)
        \/ SetUpCloseHandler(p)
        \/ WritePidFile(p)
        \/ Kubernetes(p)
        \/ getOrCreateShadow(p)

SpecLabels == InitLabels /\ [][NextLabels]_vars

\* ---------------------------------------------------------------- helpers

InCalls(p, name) == \E i \in 1..Len(calls[p]) : calls[p][i] = name

LastCall(p) == calls[p][Len(calls[p])]

\* Process p makes the call `name` in this step.
Calls(p, name) ==
    /\ Len(calls'[p]) = Len(calls[p]) + 1
    /\ calls'[p][Len(calls'[p])] = name

\* The steps of connectToCluster after the pid file is written, and the wait.
SetupSteps ==
    {"Kubernetes", "setupDump2Host", "SetGlobalProxy",
     "SetHttpProxyEnvironmentVariable", "getOrCreateShadow", "ClusterCrids",
     "Outbound", "go", "wait"}

\* p is past lock acquisition: in cluster setup or connected, its workspace
\* not yet torn down.
PastLock(p) == Alive(p) /\ pc[p] \in SetupSteps /\ cleanup[p] # "done"

SamePidFile(p, q) == rt[p].PidFile = rt[q].PidFile

\* ------------------------------------------------------------------- claims

\* C1: when connect processes race for the lock on one pid file, at most one
\* of them is past lock acquisition at any time, and a process whose
\* WritePidFile finds the file held by a live process (one that tried while
\* the holder was past the lock) returns AlreadyRunning and never reaches the
\* cluster.
C1_Exclusive ==
    \A p, q \in Procs :
        (p # q /\ SamePidFile(p, q) /\ PastLock(p)) =>
            /\ ~PastLock(q)
            /\ (Alive(q) /\ InCalls(q, "WritePidFile") /\ cleanup[q] # "done") =>
                  /\ pc[q] = "returned"
                  /\ err[q] = ErrAlreadyRunning
                  /\ ~InCalls(q, "Kubernetes")

\* Both processes passed the IsDaemonRunning check before either wrote the
\* file; one holds the lock, the other was refused by WritePidFile.
C1_Witness ==
    \E p, q \in Procs :
        /\ p # q /\ SamePidFile(p, q) /\ PastLock(p)
        /\ InCalls(q, "WritePidFile")
        /\ err[q] = ErrAlreadyRunning

\* C2: after a successful hand-off, whichever of BackgroundFailure and
\* UserTerminate arrives first, a process that has terminated has run its
\* workspace cleanup to the end, once.
C2_CleanupExactlyOnce ==
    \A p \in Procs :
        (~Alive(p) /\ InCalls(p, "wait")) => cleanup[p] = "done"

\* C3: in exclusive mode a process that ended on a fatal error after its
\* shadow was provisioned has left no live shadow of its own behind.
C3_NoShadowLeak ==
    \A p \in Procs :
        (/\ ~Alive(p)
         /\ ~opts[p].ShareShadow
         /\ rt[p].Shadow # Empty
         /\ err[p] \in {"ClusterCridsFailed", "TransportFailed"})
        => cluster[rt[p].Shadow] # p

\* C4: when connect returns a fatal error, the local changes it made (lock
\* file, host override, global proxy, proxy environment) are reverted.
C4_LocalChangesReverted ==
    \A p \in Procs :
        (pc[p] = "returned" /\ err[p] # NoErr) =>
            /\ pidFile[rt[p].PidFile] # p
            /\ applied[p] = {}

\* C5: a live shared shadow workload stays live: no step of any process, the
\* teardown of an attached client included, deletes it.
C5_SharedNeverDeleted ==
    [][cluster[SharedWorkload] # 0 => cluster'[SharedWorkload] # 0]_vars

\* Two clients were attached to the shared workload (q created it, p reused
\* it), p has torn its workspace down and q is still connected to it.
C5_Witness ==
    \E p, q \in Procs :
        /\ p # q
        /\ opts[p].ShareShadow /\ rt[p].Shadow = SharedWorkload
        /\ cleanup[p] = "done"
        /\ cluster[SharedWorkload] = q
        /\ rt[q].Shadow = SharedWorkload
        /\ Alive(q) /\ pc[q] = "wait" /\ cleanup[q] = "none"

\* The order in which the code makes its calls.
CodeOrder ==
    <<"allocateTunIP", "combineKubeOpts", "IsDaemonRunning",
      "SetUpCloseHandler", "WritePidFile", "Kubernetes", "setupDump2Host",
      "SetGlobalProxy", "SetHttpProxyEnvironmentVariable",
      "GetOrCreateShadow", "ClusterCrids", "Outbound", "wait">>

\* The order of the steps as section 4.1 gives it: the lock comes first.
SectionOrder ==
    <<"IsDaemonRunning", "WritePidFile", "allocateTunIP", "Kubernetes",
      "setupDump2Host", "SetGlobalProxy", "SetHttpProxyEnvironmentVariable",
      "GetOrCreateShadow", "ClusterCrids", "Outbound", "wait">>

\* The place of each call in an order; 0 for a call the order does not list.
RankIn(order) ==
    [x \in {CodeOrder[i] : i \in 1..Len(CodeOrder)} |->
        IF \E i \in 1..Len(order) : order[i] = x
        THEN CHOOSE i \in 1..Len(order) : order[i] = x
        ELSE 0]

CodeRank == RankIn(CodeOrder)

SectionRank == RankIn(SectionOrder)

\* The calls of p that the order lists were made in that order, none twice.
InOrder(p, rank) ==
    \A i, j \in 1..Len(calls[p]) :
        (i < j /\ rank[calls[p][i]] # 0 /\ rank[calls[p][j]] # 0)
            => rank[calls[p][i]] < rank[calls[p][j]]

\* The same for the order of the code, which lists every call.
InCodeOrder(p) ==
    \A i \in 1..(Len(calls[p]) - 1) :
        CodeRank[calls[p][i]] < CodeRank[calls[p][i + 1]]

\* The hand-off is called with a shadow endpoint and the CIDR list in hand.
HandOffLast(p) ==
    InCalls(p, "Outbound") =>
        /\ InCalls(p, "GetOrCreateShadow") /\ rt[p].Shadow # Empty
        /\ InCalls(p, "ClusterCrids") /\ "ClusterCrids" \notin failed[p]

HoldsLock(p) == pidFile[rt[p].PidFile] = p

\* C6 as stated: the calls follow the order of section 4.1, no tunnel IP is
\* allocated before the lock is held, and the hand-off comes after the
\* shadow endpoint and the CIDR list.
C6_SectionOrder ==
    \A p \in Procs :
        /\ InOrder(p, SectionRank)
        /\ InCalls(p, "allocateTunIP") => HoldsLock(p)
        /\ HandOffLast(p)

\* C6 amended: the calls follow the order of the code, in which the tunnel
\* IPs are allocated first, before the lock is looked at; the hand-off comes
\* after the shadow endpoint and the CIDR list.
C6_CodeOrder ==
    \A p \in Procs :
        /\ InCodeOrder(p)
        /\ (opts[p].Method = MethodTun /\ InCalls(p, "IsDaemonRunning")) =>
              /\ calls[p][1] = "allocateTunIP"
              /\ opts[p].SourceIP # Empty /\ opts[p].DestIP # Empty
        /\ (opts[p].Method = MethodTun /\ pc[p] = "CompleteOptions") =>
              ~HoldsLock(p)
        /\ HandOffLast(p)

\* A Tun-mode process with a host dump has gone through every step and waits.
C6_Witness ==
    \E p \in Procs :
        /\ opts[p].Method = MethodTun /\ opts[p].Dump
        /\ pc[p] = "wait"
        /\ calls[p] = <<"allocateTunIP", "combineKubeOpts", "IsDaemonRunning",
                        "SetUpCloseHandler", "WritePidFile", "Kubernetes",
                        "setupDump2Host", "GetOrCreateShadow", "ClusterCrids",
                        "Outbound", "wait">>

\* The calls whose failure is fatal, with the error connect returns for each.
FatalError ==
    [x \in {"IsDaemonRunning", "WritePidFile", "allocateTunIP", "Kubernetes",
            "GetOrCreateShadow", "Outbound", "combineKubeOpts",
            "ClusterCrids"} |->
        CASE x \in {"IsDaemonRunning", "WritePidFile"} -> {ErrAlreadyRunning}
          [] x = "allocateTunIP" -> {ErrInvalidCIDR, ErrFull}
          [] x = "Kubernetes" -> {"ClusterError"}
          [] x = "GetOrCreateShadow" -> {"ProvisionFailed"}
          [] x = "Outbound" -> {"TransportFailed"}
          [] x = "combineKubeOpts" -> {"KubeOptsError"}
          [] x = "ClusterCrids" -> {"ClusterCridsFailed"}]

NonFatal ==
    {"setupDump2Host", "SetGlobalProxy", "SetHttpProxyEnvironmentVariable"}

\* The steps at which a process has not yet come to the shadow provisioner.
BeforeShadow ==
    {"setupDump2Host", "SetGlobalProxy", "SetHttpProxyEnvironmentVariable",
     "getOrCreateShadow"}

\* C7, in every state: a failed fatal call is the last call made, connect has
\* returned its error and is not waiting; a failed non-fatal call is logged,
\* the flow has gone on to the shadow provisioner or is on its way to it, and
\* its error is not the one returned.
C7_State ==
    \A p \in Procs :
        /\ \A x \in failed[p] \ NonFatal :
              /\ LastCall(p) = x
              /\ pc[p] = "returned"
              /\ err[p] \in FatalError[x]
              /\ ~InCalls(p, "wait")
        /\ (failed[p] \cap NonFatal # {}) =>
              /\ failed[p] \cap NonFatal = logged[p]
              /\ pc[p] \in BeforeShadow \/ InCalls(p, "GetOrCreateShadow")
              /\ pc[p] = "returned" => err[p] # "ProxyConfigFailed"
        /\ InCodeOrder(p)

\* C7: as C7_State, and a process that has returned an error makes no
\* further call.
C7_FatalAborts ==
    /\ []C7_State
    /\ [][\A p \in Procs :
            (pc[p] = "returned" /\ err[p] # NoErr) =>
                (calls'[p] = calls[p] /\ pc'[p] = "returned")]_vars

\* Host dump and both proxy registrations failed, the shadow was provisioned
\* all the same, and connect returned the error of the failed hand-off.
C7_Witness ==
    \E p \in Procs :
        /\ failed[p] = NonFatal \cup {"Outbound"}
        /\ pc[p] = "returned" /\ err[p] = "TransportFailed"
        /\ rt[p].Shadow # Empty

\* C8: a process that looks at or writes a pid file held by another live
\* process returns AlreadyRunning and leaves the file alone; a process that
\* writes the pid file when it is absent holds the lock, the file recording
\* its pid.
C8_LockHandOver ==
    [][\A q \in Procs :
          LET f == pidFile[rt[q].PidFile]
          IN /\ ((Calls(q, "IsDaemonRunning") \/ Calls(q, "WritePidFile"))
                    /\ f # 0 /\ f # q /\ proc[f] = "alive")
                 => /\ err'[q] = ErrAlreadyRunning
                    /\ pc'[q] = "returned"
                    /\ pidFile' = pidFile
             /\ (Calls(q, "WritePidFile") /\ f = 0)
                 => /\ pidFile'[rt[q].PidFile] = q
                    /\ pc'[q] = "Kubernetes"
                    /\ err'[q] = NoErr]_vars

\* p held the lock and its teardown removed the file; after that q acquired
\* the lock, and the file records q.
C8_Witness ==
    \E p, q \in Procs :
        /\ p # q /\ SamePidFile(p, q)
        /\ cleanup[p] = "done"
        /\ HoldsLock(q) /\ InCalls(q, "Kubernetes")

\* The network address of a CIDR that parses.
NetworkOf(c) == c.addr - (c.addr % RangeSize(c.prefix))

\* The host addresses of a network: all but the first and the last.
UsableHosts(c) ==
    IF c.prefix > AddrBits THEN {}
    ELSE (NetworkOf(c) + 1)..(NetworkOf(c) + RangeSize(c.prefix) - 2)

Ran(p, name) == opts[p].Method = MethodTun /\ InCalls(p, name)

\* C9: for a CIDR with at least 2 usable host addresses, allocateTunIP gives
\* two distinct host addresses of the network, neither the network nor the
\* broadcast address; the source is the first address drawn from the range
\* and the destination the second.
C9_TwoHostAddresses ==
    \A p \in Procs :
        LET c == opts[p].TunCidr
            src == opts[p].SourceIP
            dst == opts[p].DestIP
            rge == NewAllocatorCIDRRange(ParseCIDR(c))
            first == AllocateNext(rge, {})
            second == AllocateNext(rge, {first.offset})
        IN (Ran(p, "allocateTunIP") /\ Cardinality(UsableHosts(c)) >= 2) =>
              /\ "allocateTunIP" \notin failed[p]
              /\ Len(src) = 1 /\ Len(dst) = 1
              /\ src # dst
              /\ src[1] \in UsableHosts(c) /\ dst[1] \in UsableHosts(c)
              /\ src[1] # NetworkOf(c) /\ dst[1] # NetworkOf(c)
              /\ src[1] # NetworkOf(c) + RangeSize(c.prefix) - 1
              /\ dst[1] # NetworkOf(c) + RangeSize(c.prefix) - 1
              /\ src = IPString(first.ip) /\ dst = IPString(second.ip)

\* A network whose address is not the CIDR's own address (host bits set) has
\* given its two lowest host addresses.
C9_Witness ==
    \E p \in Procs :
        /\ Ran(p, "allocateTunIP")
        /\ opts[p].TunCidr = [addr |-> Pow2(AddrBits) - 1, prefix |-> 1]
        /\ opts[p].SourceIP = <<Pow2(AddrBits - 1) + 1>>
        /\ opts[p].DestIP = <<Pow2(AddrBits - 1) + 2>>

\* C10: for a CIDR that parses and has fewer than 2 usable host addresses,
\* allocateTunIP fails with the range-exhausted error and gives no address;
\* the command returns that error before connect runs, SourceIP and DestIP
\* unset.
C10_RangeExhausted ==
    \A p \in Procs :
        LET c == opts[p].TunCidr
        IN (/\ Ran(p, "allocateTunIP")
            /\ c.prefix <= AddrBits
            /\ Cardinality(UsableHosts(c)) < 2) =>
              /\ allocateTunIP(c) = AllocFail(ErrFull)
              /\ pc[p] = "returned" /\ err[p] = ErrFull
              /\ opts[p].SourceIP = Empty /\ opts[p].DestIP = Empty
              /\ calls[p] = <<"allocateTunIP">>
              /\ ~HoldsLock(p)

\* A network of two addresses (no usable host) was refused.
C10_Witness ==
    \E p \in Procs :
        /\ Ran(p, "allocateTunIP")
        /\ opts[p].TunCidr.prefix = AddrBits - 1
        /\ pc[p] = "returned" /\ err[p] = ErrFull

\* The workloads that are live on the cluster.
Live == {n \in WorkloadNames : cluster[n] # 0}

\* C11, in every state: with ShareShadow every GetOrCreateShadow call carries
\* the one fixed name, every process that provisioned records that name, and
\* as soon as one has, exactly one workload is live: the shared one.
C11_State ==
    /\ \A p \in Procs :
          (opts[p].ShareShadow /\ request[p].made) =>
              request[p].workload = SharedWorkload
    /\ \A p \in Procs :
          (opts[p].ShareShadow /\ rt[p].Shadow # Empty) =>
              /\ rt[p].Shadow = SharedWorkload
              /\ Live = {SharedWorkload}

\* C11: as C11_State, and a call made with ShareShadow while the shared
\* workload is live creates nothing: the cluster is left as it is and the
\* caller, when the call succeeds, records the workload of the first caller.
C11_SharedIdempotent ==
    /\ []C11_State
    /\ [][\A p \in Procs :
            (/\ Calls(p, "GetOrCreateShadow")
             /\ opts[p].ShareShadow
             /\ cluster[SharedWorkload] # 0) =>
                /\ cluster' = cluster
                /\ "GetOrCreateShadow" \notin failed'[p] =>
                      rt'[p].Shadow = SharedWorkload]_vars

\* Two processes at separate workstations are connected at the same time
\* through the shared workload, which q created and p reused.
C11_Witness ==
    \E p, q \in Procs :
        /\ p # q
        /\ Alive(p) /\ pc[p] = "wait" /\ rt[p].Shadow = SharedWorkload
        /\ Alive(q) /\ pc[q] = "wait" /\ rt[q].Shadow = SharedWorkload
        /\ request[p].workload = request[q].workload
        /\ cluster[SharedWorkload] = q
        /\ Live = {SharedWorkload}

\* C12: two processes that called the shadow provisioner without ShareShadow
\* asked for two distinct workload names, whatever suffixes were drawn.
C12_DistinctNames ==
    \A p, q \in Procs :
        (/\ p # q
         /\ ~opts[p].ShareShadow /\ request[p].made
         /\ ~opts[q].ShareShadow /\ request[q].made)
        => request[p].workload # request[q].workload

\* The addresses of the table process p handed to util.DumpHosts.
DumpedAddresses(p) == {dumped[p].hosts[k] : k \in DOMAIN dumped[p].hosts}

\* C13: the hosts table handed to util.DumpHosts holds no entry whose address
\* is "" or "None", whether the entry is of the primary namespace or of an
\* extra one.
C13_NoPlaceholderAddress ==
    \A p \in Procs :
        dumped[p].made => \A ip \in DumpedAddresses(p) : ~Skipped(ip)

\* The namespaces listed for the dump other than the primary one.
ExtraNamespaces(o) ==
    {o.Dump2HostsNamespaces[i] : i \in 1..Len(o.Dump2HostsNamespaces)}
        \ {o.Namespace}

\* The services of a namespace that have an address to dump.
Addressed(n) == {svc \in DOMAIN services[n] : ~Skipped(services[n][svc])}

\* The table of the example: svcA of ns1, and svcA of ns2 under svcA.ns2.
ExampleTable ==
    <<"svcA">> :> "1.1.1.1" @@ <<"svcA", "ns2">> :> "2.2.2.2"

\* C14: the table handed to util.DumpHosts holds every service of the primary
\* namespace under its plain name with the address the primary namespace
\* gives it, every service with an address of each extra namespace other
\* than the primary one under serviceName.namespace, and no other key (none
\* for the primary namespace listed among the extras); for the tables of the
\* example it is exactly {svcA: 1.1.1.1, svcA.ns2: 2.2.2.2}.
C14_MergedTable ==
    \A p \in Procs :
        dumped[p].made =>
            LET o == opts[p]
                hosts == dumped[p].hosts
                primary == services[o.Namespace]
            IN /\ \A svc \in DOMAIN primary :
                     /\ <<svc>> \in DOMAIN hosts
                     /\ hosts[<<svc>>] = primary[svc]
               /\ \A n \in ExtraNamespaces(o) : \A svc \in Addressed(n) :
                     /\ <<svc, n>> \in DOMAIN hosts
                     /\ hosts[<<svc, n>>] = services[n][svc]
               /\ DOMAIN hosts =
                     {<<svc>> : svc \in DOMAIN primary} \cup
                     UNION {{<<svc, n>> : svc \in Addressed(n)} :
                               n \in ExtraNamespaces(o)}
               /\ (services = SampleServices /\ "ns2" \in ExtraNamespaces(o))
                     => hosts = ExampleTable

\* The example, with the primary namespace listed among the extras as well.
C14_Witness ==
    \E p \in Procs :
        /\ services = SampleServices
        /\ opts[p].Namespace = "ns1"
        /\ opts[p].Dump2HostsNamespaces = <<"ns1", "ns2">>
        /\ dumped[p].made
        /\ dumped[p].hosts = ExampleTable

\* C15: in the label map passed to GetOrCreateShadow every key of the user's
\* labels carries the user's value, a key that is also a built-in one
\* (control marker, component, name, version) included.
C15_UserLabelsWin ==
    \A p \in Procs :
        request[p].made =>
            \A k \in DOMAIN opts[p].Labels :
                request[p].labels[k] = <<opts[p].Labels[k]>>

\* C16: a process on the background-failure path (its watcher has begun the
\* workspace cleanup) does not end before that cleanup is over, a
\* termination signal arriving meanwhile included, and ends with code 0; a
\* connect that returned from its wait for the signal returned no error.
C16_ExitAfterCleanup ==
    \A p \in Procs :
        /\ cleanup[p] = "watcher" => Alive(p)
        /\ (interrupt[p] = "taken" /\ ~Alive(p)) => proc[p] = "exit0"
        /\ (InCalls(p, "wait") /\ pc[p] \in {"returned", "cleaning", "exit"})
              => err[p] = NoErr

\* A termination signal was delivered to p after its close handler was
\* installed: it waits in the channel, or connect received it and returned.
Signalled(p) ==
    \/ ch[p] = "signal"
    \/ InCalls(p, "wait") /\ pc[p] \in {"returned", "cleaning", "exit"}

\* C17: a termination signal delivered after the close handler is installed,
\* during the setup steps included, leads to workspace cleanup and to the end
\* of the process. A process that has ended can run no cleanup any more, so
\* one that had acquired the lock and ended after such a signal has run its
\* cleanup to the end.
C17_SignalLeadsToCleanup ==
    \A p \in Procs :
        (Signalled(p) /\ InCalls(p, "Kubernetes") /\ ~Alive(p)) =>
            cleanup[p] = "done"

\* The number of times p has made a call.
CallCount(p, name) ==
    Cardinality({i \in 1..Len(calls[p]) : calls[p][i] = name})

\* The call p made before its i-th one; none for the first.
CallBefore(p, i) == IF i > 1 THEN calls[p][i - 1] ELSE "none"

\* C18: in Socks mode SetGlobalProxy is called once and, whether it failed or
\* not, SetHttpProxyEnvironmentVariable is the next call, made once, before
\* the shadow is provisioned; in the other modes neither is called and
\* RuntimeOptions.ProxyConfig is as it was at the start.
C18_ProxyRegistrar ==
    \A p \in Procs :
        IF opts[p].Method = MethodSocks
        THEN /\ CallCount(p, "SetGlobalProxy") <= 1
             /\ CallCount(p, "SetHttpProxyEnvironmentVariable") <= 1
             /\ \A i \in 1..Len(calls[p]) :
                   /\ calls[p][i] = "SetHttpProxyEnvironmentVariable" =>
                         CallBefore(p, i) = "SetGlobalProxy"
                   /\ calls[p][i] = "GetOrCreateShadow" =>
                         CallBefore(p, i) = "SetHttpProxyEnvironmentVariable"
             /\ (Len(calls[p]) > 0 /\ LastCall(p) = "SetGlobalProxy") =>
                   pc[p] = "SetHttpProxyEnvironmentVariable"
        ELSE /\ \A i \in 1..Len(calls[p]) :
                   calls[p][i] \notin {"SetGlobalProxy",
                                       "SetHttpProxyEnvironmentVariable"}
             /\ rt[p].ProxyConfig = InitRuntime(rt[p].PidFile).ProxyConfig
             /\ logged[p] \cap {"SetGlobalProxy",
                                 "SetHttpProxyEnvironmentVariable"} = {}

\* In Socks mode the global proxy could not be set, the proxy environment
\* was set all the same, and the flow went on to the shadow provisioner.
C18_Witness ==
    \E p \in Procs :
        /\ opts[p].Method = MethodSocks
        /\ "SetGlobalProxy" \in failed[p]
        /\ InCalls(p, "SetHttpProxyEnvironmentVariable")
        /\ rt[p].ProxyConfig = {"envProxy"}
        /\ InCalls(p, "GetOrCreateShadow")

\* Connect found the pid file held by a live process at its liveness check
\* and returned the AlreadyRunning error.
RefusedAtCheck(q) ==
    /\ pc[q] = "returned" /\ err[q] = ErrAlreadyRunning
    /\ LastCall(q) = "IsDaemonRunning"

\* C19, in every state: a connect refused at its liveness check has installed
\* no signal handler, has called neither the cluster nor the host dump, the
\* proxy registrar or the shadow provisioner, has changed nothing locally,
\* and its runtime options are as they were at the start.
C19_State ==
    \A q \in Procs :
        RefusedAtCheck(q) =>
            /\ ch[q] = "none"
            /\ \A x \in {"SetUpCloseHandler", "WritePidFile", "Kubernetes",
                          "setupDump2Host", "SetGlobalProxy",
                          "SetHttpProxyEnvironmentVariable",
                          "GetOrCreateShadow", "ClusterCrids", "Outbound"} :
                  ~InCalls(q, x)
            /\ ~dumped[q].made /\ ~request[q].made
            /\ applied[q] = {} /\ cleanup[q] = "none"
            /\ rt[q] = InitRuntime(rt[q].PidFile)
            /\ pidFile[rt[q].PidFile] # q

ShadowFields(r) == <<r.Shadow, r.SSHCM>>

\* C20, in every state: the recorded shadow name and config reference are
\* both empty, or p's GetOrCreateShadow call succeeded and they are the name
\* p passed to the cluster and the config reference of that workload.
C20_State ==
    \A p \in Procs :
        \/ ShadowFields(rt[p]) = <<Empty, Empty>>
        \/ /\ request[p].made
           /\ "GetOrCreateShadow" \notin failed[p]
           /\ rt[p].Shadow = request[p].workload
           /\ rt[p].SSHCM = ConfigRef(request[p].workload)

\* C20: as C20_State, and the two fields change only in the step of a
\* GetOrCreateShadow call that succeeds; a call that fails leaves the runtime
\* options as they were.
C20_ShadowRecorded ==
    /\ []C20_State
    /\ [][\A p \in Procs :
            /\ ShadowFields(rt'[p]) # ShadowFields(rt[p]) =>
                  /\ Calls(p, "GetOrCreateShadow")
                  /\ "GetOrCreateShadow" \notin failed'[p]
                  /\ rt'[p].Shadow = request'[p].workload
            /\ (Calls(p, "GetOrCreateShadow")
                    /\ "GetOrCreateShadow" \in failed'[p]) =>
                  rt'[p] = rt[p]]_vars

\* The provisioning of p failed and p recorded nothing; after it q
\* provisioned its shadow and recorded it.
C20_Witness ==
    \E p, q \in Procs :
        /\ p # q
        /\ "GetOrCreateShadow" \in failed[p]
        /\ request[p].made /\ ShadowFields(rt[p]) = <<Empty, Empty>>
        /\ request[q].made /\ rt[q].Shadow = request[q].workload
        /\ rt[q].SSHCM = ConfigRef(rt[q].Shadow)
        /\ cluster[rt[q].Shadow] = q

====
